---- MODULE Spec2Model ----
(***************************************************************************)
(* Run orchestration of outlight-img2img: the runs registry of the image   *)
(* page (src/app/page.tsx, mirrored in src/app/video/page.tsx and the      *)
(* older page variant), the per-run worker pool over a shared cursor, and  *)
(* the server-side task polling loops of the generate routes.              *)
(*                                                                         *)
(* React state is modelled by its sequence of values: every setRuns        *)
(* updater is applied, in call order, to the value left by the previous    *)
(* one.  Event handlers read the values captured by the last render (ui):  *)
(* React re-renders synchronously at the end of a click handler, and some  *)
(* time after an update made by a promise continuation (action Render).    *)
(* JavaScript runs each continuation to completion, so one action is one   *)
(* continuation: from the resumption of an await to the next await.        *)
(***************************************************************************)
EXTENDS Integers, Sequences, FiniteSets, TLC

(* ------------------------------ bounds --------------------------------- *)
\* runs ever started in one behaviour
MaxRuns == 1
\* prompts submitted over all runs of one behaviour
MaxPrompts == 3
\* runs ever started in one behaviour of the registry specification
RegRuns == 4
\* video generations started in one behaviour, and prompt lines of one
VideoGens == 2
VideoTasks == 3
\* tasks of the one generation of the limit specification
LimitTasks == 4
\* runs ever started, and prompts of one batch, in the start specification
StartRuns == 2
StartBatch == 2

(* ------------------------- program constants --------------------------- *)
\* if (prev.length < 3) return prev;
Capacity == 3
\* Math.max(1, Math.min(3, run.speed))
MaxParallel == 3

Min(a, b) == IF a < b THEN a ELSE b
Max(a, b) == IF a > b THEN a ELSE b

\* one run more than the registry holds
CapRuns == Capacity + 1

RunIds == 1..Max(Max(MaxRuns, RegRuns), CapRuns)
Workers == 1..MaxParallel
Speeds == {1, 2, 3}
\* activeRunId === null
NoRun == 0

VARIABLES
    runs,         \* useState<Run[]>: the registry, in insertion order
    activeRunId,  \* useState<string | null>
    aborted,      \* run.controller.signal.aborted, per run ever started
    pool,         \* runGenerator's closure per run: cursor, total, workers
    nextId,       \* next fresh run id (crypto.randomUUID())
    now,          \* Date.now() at the last submit
    spent,        \* prompts submitted so far (bounds the exploration)
    ui,           \* what the last render captured for the event handlers
    poll,         \* one invocation of a route's task polling loop
    video         \* the video tab: videos, videoProgress, its generations

client == <<runs, activeRunId, aborted, pool, nextId, now, spent, ui, video>>
vars == <<runs, activeRunId, aborted, pool, nextId, now, spent, ui, poll, video>>

(* ------------------------------ helpers -------------------------------- *)

Ids(rs) == {rs[i].id : i \in DOMAIN rs}
InRegistry(id) == id \in Ids(runs)
RunOf(rs, id) == rs[CHOOSE i \in DOMAIN rs : rs[i].id = id]

\* prev.filter((r) => r.id !== runId)
RECURSIVE Without(_, _)
Without(rs, id) ==
    IF rs = <<>> THEN <<>>
    ELSE IF Head(rs).id = id THEN Without(Tail(rs), id)
         ELSE <<Head(rs)>> \o Without(Tail(rs), id)

\* faulty variant: const images = [img, ...r.images]
PushImageFirst(rs, id, img) ==
    [i \in DOMAIN rs |->
        IF rs[i].id # id THEN rs[i]
        ELSE [rs[i] EXCEPT !.images = <<img>> \o @]]

\* prevRuns.map((r) => r.id !== id ? r : f(r)) for the updaters below
PushImage(rs, id, img) ==
    [i \in DOMAIN rs |->
        IF rs[i].id # id THEN rs[i]
        ELSE [rs[i] EXCEPT !.images = Append(@, img)]]

\* faulty variant: const done = r.progress.done + 2
IncProgressTwice(rs, id) ==
    [i \in DOMAIN rs |->
        IF rs[i].id # id THEN rs[i]
        ELSE [rs[i] EXCEPT !.progress.done = @ + 2]]

\* faulty variant: incProgress left out
IncProgressSkipped(rs, id) == rs

IncProgress(rs, id) ==
    [i \in DOMAIN rs |->
        IF rs[i].id # id THEN rs[i]
        ELSE [rs[i] EXCEPT !.progress.done = @ + 1]]

\* faulty variant: the update without its spread of r
SetErrorBare(rs, id, message) ==
    [i \in DOMAIN rs |->
        IF rs[i].id # id THEN rs[i]
        ELSE [rs[i] EXCEPT !.status = "error", !.error = message,
                           !.images = <<>>, !.progress.done = 0]]

SetError(rs, id, message) ==
    [i \in DOMAIN rs |->
        IF rs[i].id # id THEN rs[i]
        ELSE [rs[i] EXCEPT !.status = "error", !.error = message]]

\* faulty variant: the final update without its status test
FinalStatusUnguarded(status) == "done"

\* faulty variant: the final update left out
FinalStatusKept(status) == status

\* if (r.status === "running") return { ...r, status: "done" }
FinalStatus(status) == IF status = "running" THEN "done" ELSE status

\* faulty variant: the final update without its test of r.id
SetDoneAll(rs, id) ==
    [i \in DOMAIN rs |-> [rs[i] EXCEPT !.status = FinalStatus(@)]]

SetDone(rs, id) ==
    [i \in DOMAIN rs |->
        IF rs[i].id # id THEN rs[i]
        ELSE [rs[i] EXCEPT !.status = FinalStatus(@)]]

\* return { ...r, status: "cancelled" }
SetCancelled(rs, id) ==
    [i \in DOMAIN rs |->
        IF rs[i].id # id THEN rs[i]
        ELSE [rs[i] EXCEPT !.status = "cancelled"]]

(* ---------------------------- worker pool ------------------------------ *)
Exited == [pc |-> "exit", idx |-> 0, ok |-> FALSE, sent |-> FALSE]
NotSpawned == [pc |-> "none", idx |-> 0, ok |-> FALSE, sent |-> FALSE]

NoPool ==
    [total |-> 0, cursor |-> 0, w |-> [k \in Workers |-> NotSpawned],
     claimed |-> <<>>, reported |-> <<>>, threw |-> FALSE,
     resolvable |-> TRUE]

\* let cursor = 0; const total = run.prompts.length;
NewPool(n) ==
    [total |-> n, cursor |-> 0, w |-> [k \in Workers |-> NotSpawned],
     claimed |-> [i \in 0..(n - 1) |-> 0],
     reported |-> [i \in 0..(n - 1) |-> 0],
     threw |-> FALSE,
     resolvable |-> TRUE]

\* faulty variant: the claim without its increment
NextCursorStuck(c) == c

\* cursor++
NextCursor(c) == c + 1

\* const idx = cursor; if (idx >= total) return; cursor++; ... await fetch(...)
Claim(p, k) ==
    IF p.cursor >= p.total
    THEN [p EXCEPT !.w[k] = Exited]
    ELSE [p EXCEPT !.cursor = NextCursor(@),
                   !.w[k] = [pc |-> "fetch", idx |-> p.cursor, ok |-> FALSE,
                             sent |-> TRUE],
                   !.claimed[p.cursor] = @ + 1]

\* faulty variant: the fetch without its signal option
SentAnyway(signalled) == TRUE

\* signal: run.controller?.signal -- a fetch called with a signal that is
\* already set rejects with AbortError and sends nothing
Sent(signalled) == ~signalled

\* worker k's fetch call, made while the run's signal is as given
Issue(p, k, signalled) ==
    IF p.w[k].pc = "fetch" THEN [p EXCEPT !.w[k].sent = Sent(signalled)]
    ELSE p

\* const parallel = Math.max(1, Math.min(3, run.speed));
Parallel(speed) == Max(1, Min(MaxParallel, speed))

\* for (let i = 0; i < parallel; i++) workers.push(worker());
RECURSIVE Spawn(_, _)
Spawn(p, k) == IF k = 0 THEN p ELSE Claim(Spawn(p, k - 1), k)

\* faulty variant: Promise.race(workers) has resolved
AnyExited(p) == \E k \in Workers : p.w[k].pc = "exit"

\* Promise.all(workers) has resolved
AllExited(p) == \A k \in Workers : p.w[k].pc \in {"none", "exit"}

\* await Promise.all(workers).catch(() => {}); setRuns(... "done" ...)
Join(rs, id, p) == IF AllExited(p) THEN SetDone(rs, id) ELSE rs

\* requests of the workers of run id that are on the wire
InFlightOf(id) ==
    IF aborted[id] THEN 0
    ELSE Cardinality({k \in Workers : pool[id].w[k].pc = "fetch"})

RECURSIVE SumInFlight(_)
SumInFlight(S) ==
    IF S = {} THEN 0
    ELSE LET id == CHOOSE x \in S : TRUE
         IN InFlightOf(id) + SumInFlight(S \ {id})

InFlight == SumInFlight(RunIds)

(* ------------------------------ registry ------------------------------- *)
\* faulty variant: the comparator reversed: b.startedAt - a.startedAt
NewestIndex(rs) ==
    CHOOSE i \in DOMAIN rs :
        \A j \in DOMAIN rs :
            \/ rs[i].startedAt > rs[j].startedAt
            \/ (rs[i].startedAt = rs[j].startedAt /\ i <= j)

\* [...prev].sort((a, b) => a.startedAt - b.startedAt)[0]  (stable sort)
OldestIndex(rs) ==
    CHOOSE i \in DOMAIN rs :
        \A j \in DOMAIN rs :
            \/ rs[i].startedAt < rs[j].startedAt
            \/ (rs[i].startedAt = rs[j].startedAt /\ i <= j)

Oldest(rs) == rs[OldestIndex(rs)]

\* faulty variant: the eviction one run late: if (prev.length <= 3) return prev;
OverCapacity(rs) == ~(Len(rs) <= Capacity)

\* if (prev.length < 3) return prev;
AtCapacity(rs) == ~(Len(rs) < Capacity)

\* the run whose controller the eviction updater aborts, if any
Victim(rs) == IF AtCapacity(rs) THEN Oldest(rs).id ELSE NoRun

\* return prev.filter((r) => r.id !== oldest.id);
Evict(rs) == IF AtCapacity(rs) THEN Without(rs, Oldest(rs).id) ELSE rs

NewRun(id, t, n, speed) ==
    [id |-> id, startedAt |-> t, status |-> "running", error |-> "null",
     images |-> <<>>, progress |-> [done |-> 0, total |-> n], speed |-> speed]

\* what a render captures for the handlers: the run chips, and
\* const activeRun = runs.find((r) => r.id === activeRunId) || null
\* with {activeRun.status === "running" && <button ... Cancel>}
View(rs, active) ==
    [chips |-> Ids(rs),
     activeRun |-> IF active \in Ids(rs) THEN active ELSE NoRun,
     cancellable |-> active \in Ids(rs) /\ RunOf(rs, active).status = "running"]

(* ---------------------------- video flow ------------------------------ *)
\* onGenerateVideo and runWithLimit of the page (the video page's
\* onGenerateVideos and runWithLimit are the same).  A generation is one
\* call of runWithLimit with its closure: queue, running, out, the promise
\* it returns (settled) and the AbortController of its tasks.
Gens == 1..VideoGens
Tasks == 1..Max(VideoTasks, LimitTasks)

NoGen ==
    [limit |-> 0, queue |-> <<>>, running |-> 0, out |-> <<>>,
     settled |-> "none", reason |-> "null", aborted |-> FALSE,
     task |-> [t \in Tasks |-> "none"], starts |-> [t \in Tasks |-> 0]]

\* useState initial values; ctl is videoCtlRef.current (0 for null)
NoVideo ==
    [loading |-> FALSE, error |-> "null", videos |-> <<>>,
     progress |-> [done |-> 0, total |-> 0], ctl |-> 0, nextGen |-> 1,
     gens |-> [g \in Gens |-> NoGen]]

\* Math.max(1, Math.min(3, videoParallel))
VideoLimit(parallel) == Max(1, Min(MaxParallel, parallel))

\* const queue = [...tasks]; const out = []; let running = 0;
NewGen(n, parallel) ==
    [NoGen EXCEPT !.limit = VideoLimit(parallel),
                  !.queue = [i \in 1..n |-> i],
                  !.settled = "pending",
                  !.task = [t \in Tasks |-> IF t <= n THEN "queued" ELSE "none"]]

\* resolve(out) / reject(e): only the first call settles the promise
Settle(g, how, reason) ==
    IF g.settled = "pending"
    THEN [g EXCEPT !.settled = how, !.reason = reason]
    ELSE g

\* faulty variant: while (running <= limit && queue.length)
CanStartOver(g) == g.running <= g.limit /\ g.queue # <<>>

\* while (running < limit && queue.length)
CanStart(g) == g.running < g.limit /\ g.queue # <<>>

\* const task = queue.shift()!; running++; task()... : the task runs to its
\* fetch
RECURSIVE StartTasks(_)
StartTasks(g) ==
    IF CanStart(g)
    THEN StartTasks([g EXCEPT !.queue = Tail(@),
                              !.running = @ + 1,
                              !.task[Head(g.queue)] = "fetch",
                              !.starts[Head(g.queue)] = @ + 1])
    ELSE g

\* const kick = () => { if (queue.length === 0 && running === 0) return
\* resolve(out); while ... }
Kick(g) ==
    IF g.queue = <<>> /\ g.running = 0 THEN Settle(g, "resolved", "null")
    ELSE StartTasks(g)

\* .finally(() => { if (running > 0) running--; if (queue.length > 0) kick();
\* else if (queue.length === 0 && running === 0) resolve(out); })
Finally(g) ==
    LET h == [g EXCEPT !.running = IF @ > 0 THEN @ - 1 ELSE @]
    IN  IF h.queue # <<>> THEN Kick(h)
        ELSE IF h.running = 0 THEN Settle(h, "resolved", "null")
        ELSE h

\* .then((r) => { out.push(r); return r; })
Then(g, t) == Finally([g EXCEPT !.out = Append(@, t), !.task[t] = "ok"])

\* .catch((e) => { reject(e); return Promise.reject(e); })
Catch(g, t, e) ==
    Finally([Settle(g, "rejected", e) EXCEPT !.task[t] = "failed"])

\* onGenerateVideo after await runWithLimit(...), once its promise settles:
\* catch (e) { setVideoError(...) } finally { setVideoLoading(false);
\* videoCtlRef.current = null; }
Awaited(v, before, after) ==
    IF before.settled = "pending" /\ after.settled # "pending"
    THEN [v EXCEPT !.loading = FALSE,
                   !.ctl = 0,
                   !.error = IF after.settled = "resolved" THEN @
                             ELSE IF after.reason = "AbortError"
                                  THEN "Generation cancelled."
                                  ELSE after.reason]
    ELSE v

(* --------------------------- task polling ------------------------------ *)
\* The create/poll providers: the Seedream loop of api/generate and kiePoll
\* of the video route.  Time is Date.now() in ms.
Engines == {"seedream", "kie"}

\* const MAX_MS = 180_000;
MaxMsSeedream == 180000
\* async function kiePoll(taskId: string, maxMs = 240_000)
MaxMsKie == 240000
\* await new Promise((r) => setTimeout(r, 2000));
Interval == 2000
\* longest time a status fetch takes beyond an immediate answer
MaxLatency == 1000

MaxMs(engine) == IF engine = "seedream" THEN MaxMsSeedream ELSE MaxMsKie

\* data.state of a recordInfo answer; "" is an answer without the field
ProviderStates == {"waiting", "generating", "success", "fail", ""}
\* data.resultJson of an answer in state success
\* parsed.resultUrls: a url first, "" first, none, or unparsable JSON
ResultShapes == {"urls", "blank", "empty", "malformed"}

NoPoll ==
    [pc |-> "off", engine |-> "seedream", started |-> 0, clock |-> 0,
     lastState |-> "waiting", seen |-> "none", onlyPending |-> TRUE,
     fetches |-> 0, signal |-> FALSE, late |-> FALSE,
     outcome |-> [kind |-> "none", lastState |-> "none", url |-> "none"]]

\* const started = Date.now(); let lastState = "waiting";
StartPoll(engine) == [NoPoll EXCEPT !.pc = "test", !.engine = engine]

\* faulty variant: the loop without its deadline: while (true)
NeverExpired(q) == FALSE

\* while (Date.now() - started < MAX_MS)
Expired(q) == ~(q.clock - q.started < MaxMs(q.engine))

\* lastState = qJson?.data?.state as string;   (Seedream)
\* lastState = json?.data?.state || "unknown"; (kiePoll)
Observed(engine, state) ==
    IF state # "" THEN state
    ELSE IF engine = "seedream" THEN "undefined" ELSE "unknown"

Returned(q, kind, url) ==
    [q EXCEPT !.pc = "done",
              !.outcome = [kind |-> kind, lastState |-> q.lastState, url |-> url]]

\* resultUrl = urls[0]; break; ... if (!resultUrl) timed out  (Seedream)
\* return { url: urls[0] }                                    (kiePoll)
Resolved(q, shape) ==
    IF shape = "urls" THEN Returned(q, "success", "url")
    ELSE IF shape = "blank"
         THEN (IF q.engine = "seedream" THEN Returned(q, "timeout", "none")
               ELSE Returned(q, "success", ""))
    ELSE IF shape = "malformed" \/ q.engine = "kie"
         THEN Returned(q, "malformed result", "none")
    ELSE Returned(q, "no result urls", "none")

\* faulty variant: the answer's status and code are not tested
FetchFailedIgnored(answered) == FALSE

\* if (!qRes.ok || qJson?.code !== 200), or the fetch itself threw
FetchFailed(answered) == ~answered

\* the loop condition; after the loop: timed out (last state: ${lastState})
PollTest ==
    /\ poll.pc = "test"
    /\ poll' = IF Expired(poll) THEN Returned(poll, "timeout", "none")
               ELSE [poll EXCEPT !.pc = "sleep"]
    /\ UNCHANGED client

\* the 2 s timer fires and the recordInfo fetch is issued; late records a
\* fetch issued after the caller had given the request up
PollSleep ==
    /\ poll.pc = "sleep"
    /\ poll' = [poll EXCEPT !.pc = "fetch", !.clock = @ + Interval,
                            !.late = @ \/ poll.signal]
    /\ UNCHANGED client

\* the page aborts its request to the route (run.controller.abort()); the
\* route's loop holds no reference to req.signal
PollAbort ==
    /\ poll.pc \in {"test", "sleep", "fetch"}
    /\ ~poll.signal
    /\ poll' = [poll EXCEPT !.signal = TRUE]
    /\ UNCHANGED client

\* the recordInfo fetch answers after lat ms: answered = res.ok and code 200
PollFetch(lat, answered, state, shape) ==
    /\ poll.pc = "fetch"
    /\ LET q == [poll EXCEPT !.clock = @ + lat, !.fetches = @ + 1,
                             !.seen = IF answered THEN state ELSE "none",
                             !.onlyPending =
                                 @ /\ answered /\ state \notin {"success", "fail"}]
           r == [q EXCEPT !.lastState = Observed(q.engine, state)]
       IN  poll' =
             IF FetchFailed(answered) THEN Returned(q, "query failed", "none")
             ELSE IF r.lastState = "success" THEN Resolved(r, shape)
             ELSE IF r.lastState = "fail"
                  THEN Returned(r, "provider failure", "none")
             ELSE [r EXCEPT !.pc = "test"]
    /\ UNCHANGED client

InitPoll ==
    /\ runs = <<>>
    /\ activeRunId = NoRun
    /\ aborted = [id \in RunIds |-> FALSE]
    /\ pool = [id \in RunIds |-> NoPool]
    /\ nextId = 1
    /\ now = 0
    /\ spent = 0
    /\ ui = View(<<>>, NoRun)
    /\ video = NoVideo
    /\ \E engine \in Engines : poll = StartPoll(engine)

NextPoll ==
    \/ PollTest
    \/ PollSleep
    \/ PollAbort
    \/ \E lat \in {0, MaxLatency}, answered \in BOOLEAN,
          state \in ProviderStates, shape \in ResultShapes :
          PollFetch(lat, answered, state, shape)

SpecPoll == InitPoll /\ [][NextPoll]_vars

(* ----------------------------- the routes ----------------------------- *)
\* One request to a route: the reference is resolved, then the provider is
\* called.  The Seedream branch of api/generate and the image-to-video
\* branch of the video route create a task and poll it; the Gemini branch
\* of api/generate makes one synchronous call.
RouteEngines == {"seedream", "kie", "gemini"}
\* body.customUrl: absent or a url
CustomUrls == {"", "url"}
\* the products row: the query fails, image_url is empty, or it is a url
DbAnswers == {"error", "", "url"}

\* faulty variant: a reference that cannot be resolved is handed on
GetReferenceUrlLax(customUrl, productId, db) ==
    IF customUrl # "" THEN customUrl ELSE "url"

\* getReferenceUrl: "throw" stands for each of its three throws
GetReferenceUrl(customUrl, productId, db) ==
    IF customUrl # "" THEN customUrl
    ELSE IF ~productId THEN "throw"
    ELSE IF db = "error" THEN "throw"
    ELSE IF db = "" THEN "throw"
    ELSE db

\* const body = await req.json(); ... modelId.startsWith("seedream")
Request(engine, customUrl, productId, db) ==
    [NoPoll EXCEPT !.pc = "resolve", !.engine = engine] @@
    [customUrl |-> customUrl, productId |-> productId, db |-> db,
     ref |-> "none", created |-> 0, generated |-> 0]

\* calls made to the provider: create task, status fetches, generate
ProviderCalls(q) ==
    q.created + q.generated + q.fetches + (IF q.pc = "fetch" THEN 1 ELSE 0)

\* const referenceUrl = await getReferenceUrl(productId, customUrl);
\* a throw is answered by the catch: { error: err.message }, status 500
Resolve ==
    /\ poll.pc = "resolve"
    /\ LET ref == GetReferenceUrl(poll.customUrl, poll.productId, poll.db)
       IN  poll' =
             IF ref = "throw" THEN Returned(poll, "reference failure", "none")
             ELSE [poll EXCEPT !.ref = ref,
                               !.pc = IF poll.engine = "gemini"
                                      THEN "generate" ELSE "create"]
    /\ UNCHANGED client

\* createTask: a failed answer or a missing taskId ends the request
CreateTask(created) ==
    /\ poll.pc = "create"
    /\ LET q == [poll EXCEPT !.created = @ + 1]
       IN  poll' = IF created THEN [q EXCEPT !.pc = "test"]
                   ELSE Returned(q, "create failed", "none")
    /\ UNCHANGED client

\* fetchImageAsBase64(referenceUrl), callGeminiImageEdit, extractGeminiImage
Generate(loaded, answered, found) ==
    /\ poll.pc = "generate"
    /\ LET q == [poll EXCEPT !.generated = @ + 1]
       IN  poll' =
             IF ~loaded THEN Returned(poll, "reference failure", "none")
             ELSE IF ~answered THEN Returned(q, "provider failure", "none")
             ELSE IF found THEN Returned(q, "success", "url")
             ELSE Returned(q, "no image", "none")
    /\ UNCHANGED client

InitRoute ==
    /\ runs = <<>>
    /\ activeRunId = NoRun
    /\ aborted = [id \in RunIds |-> FALSE]
    /\ pool = [id \in RunIds |-> NoPool]
    /\ nextId = 1
    /\ now = 0
    /\ spent = 0
    /\ ui = View(<<>>, NoRun)
    /\ video = NoVideo
    /\ \E engine \in RouteEngines, customUrl \in CustomUrls,
          productId \in BOOLEAN, db \in DbAnswers :
          poll = Request(engine, customUrl, productId, db)

NextRoute ==
    \/ Resolve
    \/ \E created \in BOOLEAN : CreateTask(created)
    \/ \E loaded \in BOOLEAN, answered \in BOOLEAN, found \in BOOLEAN :
          Generate(loaded, answered, found)
    \/ PollTest
    \/ PollSleep
    \/ \E answered \in BOOLEAN, state \in ProviderStates,
          shape \in ResultShapes : PollFetch(0, answered, state, shape)

SpecRoute == InitRoute /\ [][NextRoute]_vars

(* ------------------------------- Init ---------------------------------- *)
Init ==
    /\ runs = <<>>
    /\ activeRunId = NoRun
    /\ aborted = [id \in RunIds |-> FALSE]
    /\ pool = [id \in RunIds |-> NoPool]
    /\ nextId = 1
    /\ now = 0
    /\ spent = 0
    /\ ui = View(<<>>, NoRun)
    /\ poll = NoPoll
    /\ video = NoVideo

(* ------------------------------ actions -------------------------------- *)
\* The reference as the page holds it: none (referenceUrl is empty), a url
\* the route resolves, or a product whose row the route's getReferenceUrl
\* does not find (DB error, no image_url) when the run's requests arrive.
Refs == {"none", "url", "stale"}

\* onGenerateNewRun with reference ref, n prompt lines, speed s, d ms after
\* the last submit:  if (!ref || promptLines.length === 0) return;
OnGenerateNewRunWith(ref, n, s, d) ==
    IF ref = "none" \/ n = 0 THEN UNCHANGED vars
    ELSE
    LET id == nextId
        victim == Victim(runs)
    IN  /\ runs' = Append(Evict(runs), NewRun(id, now + d, n, s))
        /\ aborted' = [x \in RunIds |-> aborted[x] \/ x = victim]
        /\ activeRunId' = id
        /\ pool' = [pool EXCEPT ![id] =
                       [Spawn(NewPool(n), Parallel(s))
                            EXCEPT !.resolvable = (ref = "url")]]
        /\ nextId' = id + 1
        /\ now' = now + d
        /\ spent' = spent + n
        /\ ui' = View(runs', activeRunId')
        /\ UNCHANGED <<poll, video>>

\* onGenerateNewRun with a reference the route resolves
OnGenerateNewRun(n, s, d) == OnGenerateNewRunWith("url", n, s, d)

\* the response of worker k's request arrives (res.ok or not); the route
\* answers 500 when getReferenceUrl throws
FetchResolves(id, k, ok) ==
    /\ pool[id].w[k].pc = "fetch"
    /\ ~aborted[id]
    /\ ok => pool[id].resolvable
    /\ pool' = [pool EXCEPT ![id].w[k].pc = "json", ![id].w[k].ok = ok]
    /\ UNCHANGED <<runs, activeRunId, aborted, nextId, now, spent, ui, poll, video>>

\* fetch rejects: AbortError once the signal is set, a network error otherwise
FetchRejects(id, k) ==
    /\ pool[id].w[k].pc = "fetch"
    /\ LET msg == IF aborted[id] THEN "Run cancelled" ELSE "Request failed"
           p == [pool[id] EXCEPT !.w[k] = Exited, !.threw = TRUE]
       IN  /\ pool' = [pool EXCEPT ![id] = p]
           /\ runs' = Join(SetError(runs, id, msg), id, p)
    /\ UNCHANGED <<activeRunId, aborted, nextId, now, spent, ui, poll, video>>

\* res.json().catch(() => ({})) settles; the worker reports and claims again
BodyResolves(id, k, readable) ==
    /\ pool[id].w[k].pc = "json"
    /\ LET wk == pool[id].w[k]
           img == [prompt |-> wk.idx,
                   imageDataUrl |-> IF readable THEN "url" ELSE "undefined"]
           err == IF readable THEN "provider" ELSE "Generation failed"
           rs == IF wk.ok
                 THEN IncProgress(PushImage(runs, id, img), id)
                 ELSE IncProgress(SetError(runs, id, err), id)
           p == Issue(Claim([pool[id] EXCEPT !.reported[wk.idx] = @ + 1], k),
                      k, aborted[id])
       IN  /\ pool' = [pool EXCEPT ![id] = p]
           /\ runs' = Join(rs, id, p)
    /\ UNCHANGED <<activeRunId, aborted, nextId, now, spent, ui, poll, video>>

\* onClick={() => cancelRun(activeRun.id)}, shown while activeRun is running
CancelRun ==
    /\ ui.cancellable
    /\ LET id == ui.activeRun
       IN  /\ runs' = SetCancelled(runs, id)
           /\ aborted' = [x \in RunIds |-> aborted[x] \/ (x = id /\ InRegistry(id))]
    /\ ui' = View(runs', activeRunId)
    /\ UNCHANGED <<activeRunId, pool, nextId, now, spent, poll, video>>

\* faulty variant: setActiveRunId(null) whatever remains
NewActiveNone(next) == NoRun

\* const newActive = next[0]?.id ?? null;
NewActive(next) == IF next = <<>> THEN NoRun ELSE next[1].id

\* onClick={() => deleteRun(activeRun.id)}
DeleteRun ==
    /\ ui.activeRun # NoRun
    /\ LET id == ui.activeRun
           next == Without(runs, id)
       IN  /\ runs' = next
           /\ activeRunId' = NewActive(next)
    /\ ui' = View(runs', activeRunId')
    /\ UNCHANGED <<aborted, pool, nextId, now, spent, poll, video>>

\* onClick={() => setActiveRunId(r.id)} on a rendered run chip
SelectRun(id) ==
    /\ id \in ui.chips
    /\ id # activeRunId
    /\ activeRunId' = id
    /\ ui' = View(runs, id)
    /\ UNCHANGED <<runs, aborted, pool, nextId, now, spent, poll, video>>

\* React re-renders: the handlers now close over the current state
Render ==
    /\ ui # View(runs, activeRunId)
    /\ ui' = View(runs, activeRunId)
    /\ UNCHANGED <<runs, activeRunId, aborted, pool, nextId, now, spent, poll, video>>

Submit(maxRuns, maxPrompts, maxBatch, speeds, delays) ==
    /\ nextId <= maxRuns
    /\ \E n \in 1..maxBatch, s \in speeds, d \in delays :
          /\ spent + n <= maxPrompts
          /\ OnGenerateNewRun(n, s, d)

WorkerStep(readables) ==
    \E id \in RunIds, k \in Workers :
        \/ \E ok \in BOOLEAN : FetchResolves(id, k, ok)
        \/ FetchRejects(id, k)
        \/ \E readable \in readables : BodyResolves(id, k, readable)

(* ------------------------- specifications ----------------------------- *)
\* One page session: runs of up to MaxPrompts prompts at every speed, every
\* outcome of every request, cancel and delete from the runs dock.
Next ==
    \/ Submit(MaxRuns, MaxPrompts, MaxPrompts, Speeds, {1})
    \/ WorkerStep(BOOLEAN)
    \/ CancelRun
    \/ DeleteRun
    \/ Render

Spec == Init /\ [][Next]_vars

\* The same session when every request is answered or fails in the end and
\* the event loop runs every continuation that is ready.
SpecLive == Spec /\ WF_vars(WorkerStep(BOOLEAN))

\* The registry at and over its capacity: single-prompt runs at speed 1,
\* started at distinct times, selected, cancelled and deleted in any order.
NextRegistry ==
    \/ Submit(RegRuns, RegRuns, 1, {1}, {1})
    \/ WorkerStep({TRUE})
    \/ CancelRun
    \/ DeleteRun
    \/ \E id \in RunIds : SelectRun(id)
    \/ Render

SpecRegistry == Init /\ [][NextRegistry]_vars

\* Full-speed runs of MaxParallel prompts, one more than the registry holds,
\* whose requests stay on the wire or fail.
NextCap ==
    \/ Submit(CapRuns, CapRuns * MaxParallel, MaxParallel, {MaxParallel}, {1})
    \/ DeleteRun
    \/ \E id \in RunIds, k \in Workers : FetchRejects(id, k)

SpecCap == Init /\ [][NextCap]_vars

\* The Start Run handler with any reference and any batch, the empty one
\* included, over StartRuns runs.
NextStart ==
    \/ /\ nextId <= StartRuns
       /\ \E ref \in Refs, n \in 0..StartBatch, s \in Speeds :
              /\ spent + n <= MaxPrompts
              /\ OnGenerateNewRunWith(ref, n, s, 1)
    \/ WorkerStep(BOOLEAN)
    \/ CancelRun
    \/ DeleteRun
    \/ Render

SpecStart == Init /\ [][NextStart]_vars

(* --------------------------- video actions ---------------------------- *)
\* onClick={onGenerateVideo}, disabled while videoLoading: n prompt lines
OnGenerateVideo(n, parallel) ==
    /\ ~video.loading
    /\ video.nextGen <= VideoGens
    /\ LET gid == video.nextGen
       IN  video' = [video EXCEPT !.loading = TRUE,
                                  !.error = "null",
                                  !.videos = <<>>,
                                  !.progress = [done |-> 0, total |-> n],
                                  !.ctl = gid,
                                  !.nextGen = @ + 1,
                                  !.gens[gid] = Kick(NewGen(n, parallel))]
    /\ UNCHANGED <<runs, activeRunId, aborted, pool, nextId, now, spent, ui, poll>>

\* onClick={cancelVideo}, shown while videoLoading
CancelVideo ==
    /\ video.loading
    /\ video.ctl # 0
    /\ ~video.gens[video.ctl].aborted
    /\ video' = [video EXCEPT !.gens[video.ctl].aborted = TRUE]
    /\ UNCHANGED <<runs, activeRunId, aborted, pool, nextId, now, spent, ui, poll>>

\* the response of task t of generation g arrives
TaskFetchResolves(g, t, ok) ==
    /\ video.gens[g].task[t] = "fetch"
    /\ ~video.gens[g].aborted
    /\ video' = [video EXCEPT !.gens[g].task[t] =
                                  IF ok THEN "body" ELSE "errbody"]
    /\ UNCHANGED <<runs, activeRunId, aborted, pool, nextId, now, spent, ui, poll>>

\* the fetch of task t rejects: AbortError once the signal is set
TaskFetchRejects(g, t) ==
    /\ video.gens[g].task[t] = "fetch"
    /\ LET before == video.gens[g]
           e == IF before.aborted THEN "AbortError" ELSE "Failed to fetch"
           after == Catch(before, t, e)
       IN  video' = Awaited([video EXCEPT !.gens[g] = after], before, after)
    /\ UNCHANGED <<runs, activeRunId, aborted, pool, nextId, now, spent, ui, poll>>

\* the body of task t is read: throw on !res.ok, else setVideos and
\* setVideoProgress and the task's result
TaskBodyResolves(g, t) ==
    /\ video.gens[g].task[t] \in {"body", "errbody"}
    /\ LET before == video.gens[g]
           failed == before.task[t] = "errbody"
           after == IF failed THEN Catch(before, t, "Generation failed")
                    ELSE Then(before, t)
           v == IF failed THEN video
                ELSE [video EXCEPT !.videos = Append(@, <<g, t>>),
                                   !.progress.done = @ + 1]
       IN  video' = Awaited([v EXCEPT !.gens[g] = after], before, after)
    /\ UNCHANGED <<runs, activeRunId, aborted, pool, nextId, now, spent, ui, poll>>

NextVideo ==
    \/ \E n \in 1..VideoTasks, parallel \in Speeds :
          OnGenerateVideo(n, parallel)
    \/ CancelVideo
    \/ \E g \in Gens, t \in Tasks :
          \/ \E ok \in BOOLEAN : TaskFetchResolves(g, t, ok)
          \/ TaskFetchRejects(g, t)
          \/ TaskBodyResolves(g, t)

SpecVideo == Init /\ [][NextVideo]_vars

\* One call of runWithLimit with up to LimitTasks tasks at every limit, its
\* tasks completing or failing in any order.
NextLimit ==
    \/ /\ video.nextGen = 1
       /\ \E n \in 1..LimitTasks, parallel \in Speeds :
              OnGenerateVideo(n, parallel)
    \/ CancelVideo
    \/ \E t \in Tasks :
          \/ \E ok \in BOOLEAN : TaskFetchResolves(1, t, ok)
          \/ TaskFetchRejects(1, t)
          \/ TaskBodyResolves(1, t)

SpecLimit == Init /\ [][NextLimit]_vars

(* ------------------------------ claims --------------------------------- *)
Registered(id) == RunOf(runs, id)
Terminal(status) == status \in {"done", "error", "cancelled"}
ImagesOf(r, x) == {j \in DOMAIN r.images : r.images[j].prompt = x}

\* C1: a run whose status is done has progress.done = progress.total = the
\* batch length, and every prompt index reported exactly one outcome (one
\* image each, none twice, none missing), whatever the speed.
C1_DoneIsComplete ==
    \A i \in DOMAIN runs :
        runs[i].status = "done" =>
            LET r == runs[i]
                p == pool[r.id]
            IN  /\ r.progress.done = r.progress.total
                /\ r.progress.total = p.total
                /\ Len(r.images) = p.total
                /\ \A x \in 0..(p.total - 1) :
                       /\ p.reported[x] = 1
                       /\ Cardinality(ImagesOf(r, x)) = 1

\* a done run of three prompts at speed 2 or 3
C1_Witness ==
    \E i \in DOMAIN runs :
        /\ runs[i].status = "done"
        /\ runs[i].progress.total = 3
        /\ runs[i].speed >= 2

\* C2: once a run is cancelled its status stays cancelled for as long as it is
\* registered (no later step makes it error or done), and progress.done
\* never decreases.
C2_CancelledIsFinal ==
    [][\A i \in DOMAIN runs : \A j \in DOMAIN runs' :
          runs'[j].id = runs[i].id =>
              /\ runs'[j].progress.done >= runs[i].progress.done
              /\ (runs[i].status = "cancelled" => runs'[j].status = "cancelled")
      ]_vars

\* C3: a run none of whose requests threw and that was not cancelled is
\* running until its pool has drained and done afterwards, whatever the
\* provider answered for its prompts.
C3_ProviderFailureKeepsRunning ==
    \A i \in DOMAIN runs :
        LET r == runs[i]
            p == pool[r.id]
        IN  (~p.threw /\ ~aborted[r.id] /\ r.status # "cancelled") =>
                r.status = IF AllExited(p) THEN "done" ELSE "running"

\* C4: a submit on a full registry aborts and removes exactly one run, one
\* whose startedAt no other run's precedes, and leaves the other two runs,
\* their controllers and their pools as they were; the new run joins them.
C4_EvictsOldestOnly ==
    [][(nextId' = nextId + 1 /\ Len(runs) = Capacity) =>
          \E v \in Ids(runs) :
              /\ \A j \in DOMAIN runs :
                     Registered(v).startedAt <= runs[j].startedAt
              /\ aborted'[v]
              /\ v \notin Ids(runs')
              /\ Ids(runs') = (Ids(runs) \ {v}) \cup {nextId}
              /\ Len(runs') = Capacity
              /\ \A id \in Ids(runs) \ {v} :
                     /\ RunOf(runs', id) = Registered(id)
                     /\ aborted'[id] = aborted[id]
                     /\ pool'[id] = pool[id]
      ]_vars

\* the fourth run was admitted: run 1 was aborted in flight and removed
C4_Witness ==
    /\ nextId = Capacity + 2
    /\ Ids(runs) = {2, 3, 4}
    /\ aborted[1] /\ ~aborted[2] /\ ~aborted[3]
    /\ pool[1].w[1].pc = "fetch"

\* C5: the registry never holds more than three runs.
C5_AtMostThree == Len(runs) <= Capacity

\* three runs registered after a submit that had to evict
C5_Witness == Len(runs) = Capacity /\ nextId > Capacity + 1

\* C6: every prompt index of a run is claimed at most once, workers that
\* hold a claim hold different indexes, and no index at or past the batch
\* length is claimed.
C6_ClaimedOnce ==
    \A id \in RunIds :
        LET p == pool[id]
            busy == {k \in Workers : p.w[k].pc \in {"fetch", "json"}}
        IN  /\ p.cursor <= p.total
            /\ \A x \in DOMAIN p.claimed : p.claimed[x] <= 1
            /\ \A k \in busy : p.w[k].idx < p.total
            /\ \A k1, k2 \in busy : k1 # k2 => p.w[k1].idx # p.w[k2].idx

\* two workers hold the last two of three claimed prompts
C6_Witness ==
    \E id \in RunIds :
        /\ pool[id].total = 3
        /\ pool[id].cursor = 3
        /\ \A x \in 0..2 : pool[id].claimed[x] = 1
        /\ \E k1, k2 \in Workers :
               /\ k1 # k2
               /\ pool[id].w[k1].pc = "fetch" /\ pool[id].w[k1].idx = 2
               /\ pool[id].w[k2].pc = "json" /\ pool[id].w[k2].idx = 1

\* C7: at most 3 x 3 requests are on the wire, over every run ever started.
C7_AtMostNineInFlight == InFlight <= Capacity * MaxParallel

\* C8: a run that left the registry while its workers were active has its
\* cancellation signal set.
C8_RemovedRunsAreCancelled ==
    \A id \in RunIds :
        (id < nextId /\ ~InRegistry(id) /\ ~AllExited(pool[id])) => aborted[id]

\* C9: cancelRun on a run whose status is done, error or cancelled leaves
\* the registry as it was.
C9_CancelTerminalIsNoOp ==
    [][(CancelRun /\ InRegistry(ui.activeRun)
           /\ Terminal(Registered(ui.activeRun).status)) => runs' = runs
      ]_vars

\* C10: while every status fetch answered with a state other than success
\* and fail, the loop has fetched at most deadline / interval times, and if
\* it has returned, it returned a timeout that names the last state fetched,
\* with the deadline elapsed.
C10_PendingTimesOut ==
    poll.onlyPending =>
        /\ poll.fetches <= MaxMs(poll.engine) \div Interval
        /\ poll.pc = "done" =>
               /\ poll.outcome.kind = "timeout"
               /\ poll.outcome.url = "none"
               /\ poll.fetches >= 1
               /\ poll.clock - poll.started >= MaxMs(poll.engine)
               /\ poll.seen # "" => poll.outcome.lastState = poll.seen
               /\ poll.seen = "" =>
                      poll.outcome.lastState \in {"undefined", "unknown"}

\* kiePoll timed out after answers that were all pending, the last generating
C10_Witness ==
    /\ poll.pc = "done"
    /\ poll.engine = "kie"
    /\ poll.onlyPending
    /\ poll.seen = "generating"
    /\ poll.outcome.kind = "timeout"

\* C11: the polling loop issues no status fetch once the caller's
\* cancellation signal is set, and a loop that returns after the signal was
\* set returns cancelled.
C11_CancelledPollStops ==
    /\ ~poll.late
    /\ (poll.pc = "done" /\ poll.signal) => poll.outcome.kind = "cancelled"

\* C12: the loop returns a success only after a status fetch that reported
\* the state success, and with a result url that is present and not empty;
\* every return is a timeout, a failed fetch or follows a terminal state.
C12_SuccessIsUsable ==
    poll.pc = "done" =>
        /\ poll.outcome.kind \in
               {"timeout", "query failed", "success", "provider failure",
                "malformed result", "no result urls"}
        /\ poll.outcome.kind = "success" =>
               /\ poll.seen = "success"
               /\ poll.outcome.url = "url"

\* C13: a run's images grow only at the end, by the image of the worker
\* whose response has just been read (arrival order); a run with one worker
\* lists its images in prompt order.
C13_ArrivalOrder ==
    /\ [](\A i \in DOMAIN runs :
             Parallel(runs[i].speed) = 1 =>
                 \A a, b \in DOMAIN runs[i].images :
                     a < b => runs[i].images[a].prompt < runs[i].images[b].prompt)
    /\ [][\A i \in DOMAIN runs : \A j \in DOMAIN runs' :
             (runs'[j].id = runs[i].id /\ runs'[j].images # runs[i].images) =>
                 \E k \in Workers :
                     LET wk == pool[runs[i].id].w[k]
                     IN  /\ wk.pc = "json" /\ wk.ok
                         /\ pool'[runs[i].id].w[k] # wk
                         /\ Len(runs'[j].images) = Len(runs[i].images) + 1
                         /\ SubSeq(runs'[j].images, 1, Len(runs[i].images))
                                = runs[i].images
                         /\ runs'[j].images[Len(runs'[j].images)].prompt = wk.idx
         ]_vars

\* prompt 1, claimed second, is listed before prompt 0
C13_Witness ==
    \E i \in DOMAIN runs :
        /\ runs[i].speed >= 2
        /\ Len(runs[i].images) = 2
        /\ runs[i].images[1].prompt = 1
        /\ runs[i].images[2].prompt = 0

\* C14: every run ever created had a batch of at least one prompt and a
\* reference that resolves; a submit without them creates no run.
C14_NoRunWithoutReference ==
    \A id \in RunIds :
        id < nextId => (pool[id].total > 0 /\ pool[id].resolvable)

\* C15: every image a worker appends to a run carries an image url that is
\* present and not empty.
C15_ImagesHaveUrl ==
    \A i \in DOMAIN runs : \A j \in DOMAIN runs[i].images :
        runs[i].images[j].imageDataUrl = "url"

\* C16: progress.done never exceeds progress.total, and progress.total is
\* the batch length of the run's creation in every state.
C16_ProgressBounded ==
    /\ [](\A i \in DOMAIN runs :
             /\ runs[i].progress.done <= runs[i].progress.total
             /\ runs[i].progress.total = pool[runs[i].id].total)
    /\ [][\A i \in DOMAIN runs : \A j \in DOMAIN runs' :
             runs'[j].id = runs[i].id =>
                 runs'[j].progress.total = runs[i].progress.total]_vars

\* every prompt of a three-prompt run is counted while its status is error
C16_Witness ==
    \E i \in DOMAIN runs :
        /\ runs[i].progress.total = 3
        /\ runs[i].progress.done = 3
        /\ runs[i].status = "error"

\* C17: a run is done only when every worker of its pool has exited, none
\* threw, the cursor is exhausted and the run's signal is not set; and a
\* run becomes done only from running.
C17_DoneOnlyAfterDrain ==
    /\ [](\A i \in DOMAIN runs :
             runs[i].status = "done" =>
                 LET p == pool[runs[i].id]
                 IN  /\ \A k \in Workers : p.w[k].pc \in {"none", "exit"}
                     /\ ~p.threw
                     /\ p.cursor = p.total
                     /\ ~aborted[runs[i].id])
    /\ [][\A i \in DOMAIN runs : \A j \in DOMAIN runs' :
             (runs'[j].id = runs[i].id /\ runs'[j].status = "done") =>
                 runs[i].status \in {"running", "done"}]_vars

\* a run at speed 3 is done with its three workers exited
C17_Witness ==
    \E i \in DOMAIN runs :
        /\ runs[i].status = "done"
        /\ runs[i].speed = 3
        /\ \A k \in Workers : pool[runs[i].id].w[k].pc = "exit"

\* C18: once a worker of a run has exited through its catch, no worker of
\* the run claims another prompt: the cursor stays where it was.
C18_ThrowStopsScheduling ==
    [][\A id \in RunIds :
          pool[id].threw => pool'[id].cursor = pool[id].cursor]_vars

\* C19: once a run's cancellation signal is set, no worker of the run claims
\* another prompt: the cursor stays where it was.
C19_NoClaimAfterCancel ==
    [][\A id \in RunIds :
          aborted[id] => pool'[id].cursor = pool[id].cursor]_vars

\* C20: the pool of every run drains, and a pool that has drained with no
\* worker thrown and no signal set has had every prompt index claimed once
\* and reported once, its run's progress.done being the batch length,
\* whatever the answers were.
C20_EveryPromptCounted ==
    /\ [](\A id \in RunIds :
             LET p == pool[id]
             IN  (id < nextId /\ AllExited(p) /\ ~p.threw /\ ~aborted[id]) =>
                     /\ p.cursor = p.total
                     /\ \A x \in DOMAIN p.claimed :
                            p.claimed[x] = 1 /\ p.reported[x] = 1
                     /\ InRegistry(id) =>
                            Registered(id).progress.done = p.total)
    /\ \A id \in RunIds : (id < nextId) ~> AllExited(pool[id])

\* three prompts drained, the provider having failed at least one of them
C20_Witness ==
    \E i \in DOMAIN runs :
        LET p == pool[runs[i].id]
        IN  /\ AllExited(p) /\ ~p.threw /\ ~aborted[runs[i].id]
            /\ p.total = 3
            /\ runs[i].progress.done = 3
            /\ Len(runs[i].images) < 3

\* C21: once a run's signal is set, whatever a worker of the run does next,
\* it sends no request and receives no response: a fetch it calls is not
\* sent, and the requests that were on the wire are not answered.
C21_NothingSentAfterCancel ==
    [][\A id \in RunIds : \A k \in Workers :
          (aborted[id] /\ pool'[id].w[k] # pool[id].w[k]) =>
              /\ ~pool'[id].w[k].sent
              /\ pool'[id].w[k].pc # "json"
      ]_vars

\* a worker called fetch for prompt 1 after the signal was set
C21_Witness ==
    \E id \in RunIds : \E k \in Workers :
        /\ aborted[id]
        /\ pool[id].w[k].pc = "fetch"
        /\ pool[id].w[k].idx = 1
        /\ ~pool[id].w[k].sent

\* C22: whenever the last status fetch failed (no answer, a status that is
\* not OK, a body that is unreadable or not code 200), polling has ended
\* with the failure of that fetch: no later fetch, and an outcome returned.
C22_FailedFetchEndsPolling ==
    (poll.fetches >= 1 /\ poll.seen = "none") =>
        /\ poll.pc = "done"
        /\ poll.outcome.kind = "query failed"

\* the second status fetch failed after a pending answer
C22_Witness ==
    /\ poll.pc = "done"
    /\ poll.outcome.kind = "query failed"
    /\ poll.outcome.lastState = "generating"
    /\ poll.fetches = 2

\* C23: while the reference is being resolved no provider call has been
\* made; a request whose reference does not resolve (no url and no product,
\* a failed lookup, an empty image_url) makes no provider call at all and is
\* answered with a failure; every provider call is made with the reference.
C23_ResolveBeforeProvider ==
    LET unresolvable ==
            /\ poll.customUrl = ""
            /\ (~poll.productId \/ poll.db \in {"error", ""})
    IN  /\ poll.pc = "resolve" => ProviderCalls(poll) = 0
        /\ ProviderCalls(poll) > 0 => poll.ref = "url"
        /\ unresolvable =>
               /\ ProviderCalls(poll) = 0
               /\ poll.pc \in {"resolve", "done"}
               /\ poll.pc = "done" => poll.outcome.kind = "reference failure"

\* the product's image_url is empty: the request is answered, nothing called
C23_Witness ==
    /\ poll.pc = "done"
    /\ poll.customUrl = "" /\ poll.productId /\ poll.db = ""
    /\ poll.outcome.kind = "reference failure"
    /\ ProviderCalls(poll) = 0

\* C24: setError, cancelRun's update and the final update leave a run's
\* images and progress as they were; over every step a registered run keeps
\* the images it had, in place, and its progress.done does not decrease; a
\* step in which a worker threw or the signal was set changes neither.
C24_OutcomesKept ==
    /\ [](\A i \in DOMAIN runs :
             LET id == runs[i].id
                 Same(rs) == /\ rs[i].images = runs[i].images
                             /\ rs[i].progress = runs[i].progress
             IN  /\ Same(SetError(runs, id, "Request failed"))
                 /\ Same(SetCancelled(runs, id))
                 /\ Same(SetDone(runs, id)))
    /\ [][\A i \in DOMAIN runs : \A j \in DOMAIN runs' :
             runs'[j].id = runs[i].id =>
                 LET id == runs[i].id
                 IN  /\ Len(runs'[j].images) >= Len(runs[i].images)
                     /\ SubSeq(runs'[j].images, 1, Len(runs[i].images))
                            = runs[i].images
                     /\ runs'[j].progress.done >= runs[i].progress.done
                     /\ (pool'[id].threw # pool[id].threw
                            \/ aborted'[id] # aborted[id]) =>
                            /\ runs'[j].images = runs[i].images
                            /\ runs'[j].progress = runs[i].progress
         ]_vars

\* a run in error after a thrown request keeps its two images
C24_Witness ==
    \E i \in DOMAIN runs :
        /\ runs[i].status = "error"
        /\ pool[runs[i].id].threw
        /\ Len(runs[i].images) = 2
        /\ runs[i].progress.done = 2

\* C25: the active selection is none or the id of a registered run; a
\* delete that leaves runs behind selects one of them, and one that leaves
\* none selects none.
C25_ActiveIsRegistered ==
    /\ [](activeRunId = NoRun \/ InRegistry(activeRunId))
    /\ [][Len(runs') < Len(runs) =>
             IF runs' = <<>> THEN activeRunId' = NoRun
             ELSE activeRunId' \in Ids(runs')]_vars

\* after an eviction and a delete, runs 3 and 4 remain and 3 is selected
C25_Witness ==
    /\ nextId = Capacity + 2
    /\ aborted[1]
    /\ Ids(runs) = {3, 4}
    /\ activeRunId = 3

\* C26: every run that was started comes to have all its workers exited
\* for good, and from then on its status, while it is registered, is not
\* running; so does every run whose signal was set.
C26_EveryRunSettles ==
    LET Settled(id) ==
            /\ AllExited(pool[id])
            /\ InRegistry(id) => Registered(id).status # "running"
    IN  /\ \A id \in RunIds : (id < nextId) ~> [](Settled(id))
        /\ \A id \in RunIds : aborted[id] ~> [](Settled(id))

\* a cancelled run has drained with prompts left unclaimed
C26_Witness ==
    \E i \in DOMAIN runs :
        LET p == pool[runs[i].id]
        IN  /\ aborted[runs[i].id]
            /\ AllExited(p)
            /\ p.cursor < p.total
            /\ runs[i].status # "running"

\* C27: videoProgress.done never exceeds videoProgress.total.
C27_VideoProgressBounded == video.progress.done <= video.progress.total

\* C28: runWithLimit has at most limit tasks started and not finished, the
\* count running being exactly their number, and starts no task twice.
C28_AtMostLimitRunning ==
    \A g \in Gens :
        LET gen == video.gens[g]
            busy == {t \in Tasks : gen.task[t] \in {"fetch", "body", "errbody"}}
        IN  /\ Cardinality(busy) <= gen.limit
            /\ gen.running = Cardinality(busy)
            /\ \A t \in Tasks : gen.starts[t] <= 1
            /\ \A t \in Tasks : gen.task[t] = "queued" => gen.starts[t] = 0

\* four tasks at limit 2: two have finished, two are running, none queued
C28_Witness ==
    LET gen == video.gens[1]
    IN  /\ gen.limit = 2
        /\ gen.running = 2
        /\ gen.task[1] = "failed" /\ gen.task[2] = "ok"
        /\ gen.task[3] = "fetch" /\ gen.task[4] = "body"

\* C29: once the promise of runWithLimit has rejected, no queued task of it
\* is started and no result of its tasks is added to the videos.
C29_RejectedStartsNothing ==
    [][\A g \in Gens :
          video.gens[g].settled = "rejected" =>
              \A t \in Tasks :
                  /\ video.gens[g].task[t] = "queued" =>
                         video'.gens[g].task[t] = "queued"
                  /\ video'.gens[g].task[t] = "ok" =>
                         video.gens[g].task[t] = "ok"
      ]_vars

\* C30: a step of a worker of run R leaves the registry's runs in place and
\* every run other than R as it was, and when R is not registered it leaves
\* the registry as it was.
C30_UpdatesAreLocal ==
    [][\A id \in RunIds :
          (pool'[id] # pool[id] /\ nextId' = nextId) =>
              /\ Len(runs') = Len(runs)
              /\ \A i \in DOMAIN runs :
                     /\ runs'[i].id = runs[i].id
                     /\ runs[i].id # id => runs'[i] = runs[i]
              /\ ~InRegistry(id) => runs' = runs
      ]_vars

\* run 1 was deleted and its worker has since read its response, with run 2
\* registered and running
C30_Witness ==
    /\ nextId >= 3
    /\ ~InRegistry(1) /\ ~aborted[1]
    /\ pool[1].reported[0] = 1
    /\ InRegistry(2) /\ Registered(2).status = "running"

====
